---- MODULE Spec2Model ----
(***************************************************************************)
(* Model of the payments engine: accounts and deposit records              *)
(* (src/src/account.rs), the in-memory account store                       *)
(* (src/src/account_store.rs) and the transaction engine                   *)
(* (src/src/transaction_engine.rs).                                        *)
(*                                                                         *)
(* Decimal amounts are integers counting units of 0.0001 (the engine's     *)
(* four decimal places); Decimal +, -, <, max and min are then the integer *)
(* ones.  The 96-bit range of rust_decimal is far outside the bounds.      *)
(*                                                                         *)
(* Spec        the engine handling transactions of several clients.       *)
(* AccountSpec the engine handling the transactions of one client, in      *)
(*             longer runs and with more amounts.                          *)
(* RecordSpec  one DepositRecord driven through its transition methods.    *)
(* CsvSpec     run_with_csv reading the rows of one client: parsing,       *)
(*             handling, and filing of what was not applied.  A raw amount *)
(*             counts units of 0.00001, one digit more than the engine's.  *)
(***************************************************************************)
EXTENDS Integers, FiniteSets, Sequences, TLC

VARIABLES
    data,        \* InMemoryStore.data : HashMap<u16, Account>
    last,        \* the last TxEngine::handle call: its transaction and its result
    tx_record,   \* a DepositRecord driven directly through its transition methods
    steps,       \* number of handle calls made so far
    tx_call,     \* the last transition method called on tx_record and its result
    rejected_transactions,   \* run_with_csv: Vec<(u32, String)>
    dead_letter_queue,       \* run_with_csv: Vec<(Transaction, String)>
    free_call    \* the last free_disputed_amount call made on an account directly

vars ==
    <<data, last, steps, tx_record, tx_call, rejected_transactions, dead_letter_queue,
      free_call>>

\* ---------------------------------------------------------------- bounds
MaxClient == 2
MaxTx == 2
MaxAmount == 1
MaxSteps == 5
\* The single-account runs are deeper and have more amounts.
MaxAccountTx == 2
MaxAccountAmount == 2
MaxAccountSteps == 6
MaxRecordAmount == 10
\* Rows read by run_with_csv.
MaxCsvRows == 4
\* The runs of two clients side by side.
MaxShardTx == 1
MaxShardSteps == 4
\* Amounts of an account that free_disputed_amount is called on directly.
MaxFreeAmount == 3

Clients == 1..MaxClient
TxIds == 1..MaxTx
Amounts == 1..MaxAmount
AccountTxIds == 1..MaxAccountTx
AccountAmounts == 1..MaxAccountAmount
RecordAmounts == 1..MaxRecordAmount
ShardClients == {1, 2}
FreeAmounts == 0..MaxFreeAmount
ShardTxIds == 1..MaxShardTx
\* Raw amounts 0, 0.00005, 0.0001, ...: zero, ties of the rounding, exact values.
RawAmounts == {5 * k : k \in 0..(2 * MaxAmount)}

\* ---------------------------------------------------------------- decimal helpers
max(a, b) == IF a >= b THEN a ELSE b

min(a, b) == IF a <= b THEN a ELSE b

\* Decimal::round_dp(4), from units of 0.00001 to units of 0.0001: to the
\* nearest, a tie to the even neighbour (\div rounds down, also below zero).
round_dp4(v) ==
    LET q == v \div 10
        r == v % 10
    IN  IF r < 5 THEN q
        ELSE IF r > 5 THEN q + 1
        ELSE IF q % 2 = 0 THEN q ELSE q + 1

\* Option<T>: None, or Some of a value
None == [some |-> FALSE, value |-> 0]

Some(v) == [some |-> TRUE, value |-> v]

\* ---------------------------------------------------------------- account.rs
DisputeStatus == {"NotDisputed", "Disputed", "Resolved", "Refunded"}

DepositRecord_new(amount) ==
    [amount |-> amount, dispute_status |-> "NotDisputed"]

\* Result<(), String> of a transition method, with the record as it is left.
RecOk(rec) == [ok |-> TRUE, err |-> <<>>, rec |-> rec]

RecErr(rec, msg) == [ok |-> FALSE, err |-> <<msg, rec.dispute_status>>, rec |-> rec]

\* Variant of disputed: only an already Disputed record is refused.
disputed_fromRefunded(rec) ==
    IF rec.dispute_status = "Disputed"
    THEN RecErr(rec, "Cannot begin dispute from current transaciton state")
    ELSE RecOk([rec EXCEPT !.dispute_status = "Disputed"])

disputed(rec) ==
    IF rec.dispute_status = "Disputed" \/ rec.dispute_status = "Refunded"
    THEN RecErr(rec, "Cannot begin dispute from current transaciton state")
    ELSE RecOk([rec EXCEPT !.dispute_status = "Disputed"])

resolved(rec) ==
    IF rec.dispute_status # "Disputed"
    THEN RecErr(rec, "Cannot resolve dispute from current transaction state")
    ELSE RecOk([rec EXCEPT !.dispute_status = "Resolved"])

\* Variant of refunded: the record is left Resolved.
refunded_asResolved(rec) ==
    IF rec.dispute_status # "Disputed"
    THEN RecErr(rec, "Cannot chargeback from current transaction state")
    ELSE RecOk([rec EXCEPT !.dispute_status = "Resolved"])

refunded(rec) ==
    IF rec.dispute_status # "Disputed"
    THEN RecErr(rec, "Cannot chargeback from current transaction state")
    ELSE RecOk([rec EXCEPT !.dispute_status = "Refunded"])

\* HashMap::new(): the map with no keys.
EmptyMap == [k \in {} |-> 0]

Account_new(client) ==
    [client |-> client,
     total_funds |-> 0,
     active_dispute_total |-> 0,
     locked |-> FALSE,
     transactions |-> EmptyMap]

\* Variant of available_funds: the difference without the clamp at zero.
available_funds_unclamped(account) ==
    account.total_funds - account.active_dispute_total

\* Variant of available_funds: min taken for max.
available_funds_min(account) ==
    min(account.total_funds - account.active_dispute_total, 0)

available_funds(account) ==
    max(account.total_funds - account.active_dispute_total, 0)

\* Variant of held_funds: the disputed total, not capped by total_funds.
held_funds_uncapped(account) == account.active_dispute_total

\* Variant of held_funds: total_funds is not floored at zero.
held_funds_noFloor(account) ==
    min(account.active_dispute_total, account.total_funds)

held_funds(account) ==
    min(account.active_dispute_total, max(account.total_funds, 0))

\* Variant of free_disputed_amount: the disputed total is cleared whatever the amount.
free_disputed_amount_clear(account, amount) ==
    [account |-> [account EXCEPT !.active_dispute_total = 0],
     flag |-> account.active_dispute_total - amount < 0]

\* Variant of free_disputed_amount: freeing exactly the disputed total is flagged too.
free_disputed_amount_flagEqual(account, amount) ==
    LET new_disputed == account.active_dispute_total - amount
    IN  IF new_disputed <= 0
        THEN [account |-> [account EXCEPT !.active_dispute_total = 0], flag |-> TRUE]
        ELSE [account |-> [account EXCEPT !.active_dispute_total = new_disputed],
              flag |-> FALSE]

\* Returns the account as left by the call and the returned flag.
free_disputed_amount(account, amount) ==
    LET new_disputed == account.active_dispute_total - amount
    IN  IF new_disputed < 0
        THEN [account |-> [account EXCEPT !.active_dispute_total = 0], flag |-> TRUE]
        ELSE [account |-> [account EXCEPT !.active_dispute_total = new_disputed],
              flag |-> FALSE]

\* Variant of the conversion: held reports active_dispute_total itself.
AccountStatement_from_heldRaw(src) ==
    [client |-> src.client,
     available |-> round_dp4(10 * available_funds(src)),
     held |-> round_dp4(10 * src.active_dispute_total),
     total |-> round_dp4(10 * src.total_funds),
     locked |-> src.locked]

\* From<&Account> for AccountStatement.  The account's amounts count units of
\* 0.0001; round_dp(4) is applied to them written in units of 0.00001.
AccountStatement_from(src) ==
    [client |-> src.client,
     available |-> round_dp4(10 * available_funds(src)),
     held |-> round_dp4(10 * held_funds(src)),
     total |-> round_dp4(10 * src.total_funds),
     locked |-> src.locked]

\* ---------------------------------------------------------------- account_store.rs
InMemoryStore_new == EmptyMap

contains_key(map, k) == k \in DOMAIN map

\* HashMap::insert / entry().or_insert_with() on a map modelled as a function.
insert(map, k, v) ==
    [x \in DOMAIN map \cup {k} |-> IF x = k THEN v ELSE map[x]]

\* Variant of get_account_mut: a fresh account is inserted whether or not one exists.
get_account_mut_reset(store, client_id) ==
    insert(store, client_id, Account_new(client_id))

\* The store as left by get_account_mut; the returned reference is store[client_id].
get_account_mut(store, client_id) ==
    IF contains_key(store, client_id)
    THEN store
    ELSE insert(store, client_id, Account_new(client_id))

\* HashMap::values(): every value once, in an order the map chooses.
RECURSIVE values(_)
values(map) ==
    IF DOMAIN map = {} THEN <<>>
    ELSE LET k == CHOOSE x \in DOMAIN map : TRUE
         IN  <<map[k]>> \o values([x \in DOMAIN map \ {k} |-> map[x]])

get_account(store, client_id) ==
    IF contains_key(store, client_id) THEN Some(store[client_id]) ELSE None

account_statements(store) ==
    LET accounts == values(store)
    IN  [i \in DOMAIN accounts |-> AccountStatement_from(accounts[i])]

\* ---------------------------------------------------------------- transaction.rs
NoTx == [client_id |-> 0, transaction_id |-> 0, kind |-> "None", amount |-> 0]

DepositTx(c, t, a) == [client_id |-> c, transaction_id |-> t, kind |-> "Deposit", amount |-> a]

WithdrawalTx(c, t, a) == [client_id |-> c, transaction_id |-> t, kind |-> "Withdrawal", amount |-> a]

DisputeTx(c, t) == [client_id |-> c, transaction_id |-> t, kind |-> "Dispute", amount |-> 0]

ResolveTx(c, t) == [client_id |-> c, transaction_id |-> t, kind |-> "Resolve", amount |-> 0]

ChargebackTx(c, t) == [client_id |-> c, transaction_id |-> t, kind |-> "Chargeback", amount |-> 0]

TransactionRaw(typ, client, tx, amount) ==
    [transaction_type |-> typ, client |-> client, tx |-> tx, amount |-> amount]

\* Transaction::try_from: the typed transaction, or Err carrying the id.
try_from(value) ==
    LET typ == value.transaction_type
        amount == value.amount
        err == [ok |-> FALSE, tx |-> NoTx, id |-> value.tx]
    IN  IF typ = "deposit" /\ amount.some /\ amount.value > 0
        THEN [ok |-> TRUE, id |-> value.tx,
              tx |-> DepositTx(value.client, value.tx, round_dp4(amount.value))]
        ELSE IF typ = "withdrawal" /\ amount.some /\ amount.value > 0
        THEN [ok |-> TRUE, id |-> value.tx,
              tx |-> WithdrawalTx(value.client, value.tx, round_dp4(amount.value))]
        ELSE IF typ = "dispute" /\ ~amount.some
        THEN [ok |-> TRUE, id |-> value.tx, tx |-> DisputeTx(value.client, value.tx)]
        ELSE IF typ = "resolve" /\ ~amount.some
        THEN [ok |-> TRUE, id |-> value.tx, tx |-> ResolveTx(value.client, value.tx)]
        ELSE IF typ = "chargeback" /\ ~amount.some
        THEN [ok |-> TRUE, id |-> value.tx, tx |-> ChargebackTx(value.client, value.tx)]
        ELSE err

\* ---------------------------------------------------------------- transaction_engine.rs
\* Result<(), TransactionNotApplied>: tag "Ok" or the variant, with its payload.
Ok == [tag |-> "Ok", id |-> 0, detail |-> <<>>]

AccountLocked == [tag |-> "AccountLocked", id |-> 0, detail |-> <<>>]

RepeatTransaction(id) == [tag |-> "RepeatTransaction", id |-> id, detail |-> <<>>]

InsufficientFunds == [tag |-> "InsufficientFunds", id |-> 0, detail |-> <<>>]

DisputedTransactionNotFound(id) ==
    [tag |-> "DisputedTransactionNotFound", id |-> id, detail |-> <<>>]

InvalidDisputeState(err) == [tag |-> "InvalidDisputeState", id |-> 0, detail |-> err]

UnexpectedError(err) == [tag |-> "UnexpectedError", id |-> 0, detail |-> err]

\* Variant of is_failure: a repeated transaction counts as a valid rejection.
is_failure_repeatValid(res) ==
    CASE res.tag = "AccountLocked" -> FALSE
      [] res.tag = "InsufficientFunds" -> FALSE
      [] res.tag = "RepeatTransaction" -> FALSE
      [] res.tag = "DisputedTransactionNotFound" -> TRUE
      [] res.tag = "InvalidDisputeState" -> TRUE
      [] res.tag = "UnexpectedError" -> TRUE

\* TransactionNotApplied::is_failure
is_failure(res) ==
    CASE res.tag = "AccountLocked" -> FALSE
      [] res.tag = "InsufficientFunds" -> FALSE
      [] res.tag = "RepeatTransaction" -> TRUE
      [] res.tag = "DisputedTransactionNotFound" -> TRUE
      [] res.tag = "InvalidDisputeState" -> TRUE
      [] res.tag = "UnexpectedError" -> TRUE

\* Display for TransactionNotApplied: the text and what is formatted into it.
to_string(res) ==
    CASE res.tag = "AccountLocked" -> <<"Account Locked">>
      [] res.tag = "InsufficientFunds" -> <<"Insufficient Funds">>
      [] res.tag = "RepeatTransaction" -> <<"Repeat Transaction: ", res.id>>
      [] res.tag = "DisputedTransactionNotFound" -> <<"Transaction Not Found: ", res.id>>
      [] res.tag = "InvalidDisputeState" ->
             <<"Invalid state for disputed transaction: ", res.detail>>
      [] res.tag = "UnexpectedError" -> <<"Unexpected Error: ", res.detail>>

\* What one match arm leaves: the account and the value handle returns.
Arm(account, res) == [account |-> account, res |-> res]

\* Variant of the Deposit arm: the record is inserted but the funds are not credited.
handle_Deposit_noCredit(account, transaction_id, amount) ==
    IF contains_key(account.transactions, transaction_id)
    THEN Arm(account, RepeatTransaction(transaction_id))
    ELSE Arm([account EXCEPT
                 !.transactions = insert(@, transaction_id, DepositRecord_new(amount))],
             Ok)

\* Variant of the Deposit arm: no check for a repeated id.
handle_Deposit_overwrite(account, transaction_id, amount) ==
    Arm([account EXCEPT
            !.total_funds = @ + amount,
            !.transactions = insert(@, transaction_id, DepositRecord_new(amount))],
        Ok)

handle_Deposit(account, transaction_id, amount) ==
    IF contains_key(account.transactions, transaction_id)
    THEN Arm(account, RepeatTransaction(transaction_id))
    ELSE Arm([account EXCEPT
                 !.total_funds = @ + amount,
                 !.transactions = insert(@, transaction_id, DepositRecord_new(amount))],
             Ok)

\* Variant of the Withdrawal arm: the debit is made before the funds check.
handle_Withdrawal_debitFirst(account, amount) ==
    IF available_funds(account) < amount
    THEN Arm([account EXCEPT !.total_funds = @ - amount], InsufficientFunds)
    ELSE Arm([account EXCEPT !.total_funds = @ - amount], Ok)

\* Variant of the Withdrawal arm: no funds check.
handle_Withdrawal_noCheck(account, amount) ==
    Arm([account EXCEPT !.total_funds = @ - amount], Ok)

\* Variant of the Withdrawal arm: a withdrawal of all the available funds is refused.
handle_Withdrawal_strict(account, amount) ==
    IF available_funds(account) <= amount
    THEN Arm(account, InsufficientFunds)
    ELSE Arm([account EXCEPT !.total_funds = @ - amount], Ok)

\* Variant of the Withdrawal arm: the check is against total_funds.
handle_Withdrawal_totalFunds(account, amount) ==
    IF account.total_funds < amount
    THEN Arm(account, InsufficientFunds)
    ELSE Arm([account EXCEPT !.total_funds = @ - amount], Ok)

handle_Withdrawal(account, amount) ==
    IF available_funds(account) < amount
    THEN Arm(account, InsufficientFunds)
    ELSE Arm([account EXCEPT !.total_funds = @ - amount], Ok)

\* Variant of the Dispute arm: an unknown id is passed over in silence.
handle_Dispute_ignoreMissing(account, transaction_id) ==
    IF ~contains_key(account.transactions, transaction_id)
    THEN Arm(account, Ok)
    ELSE LET r == disputed(account.transactions[transaction_id])
         IN  IF ~r.ok
             THEN Arm([account EXCEPT !.transactions[transaction_id] = r.rec],
                      InvalidDisputeState(r.err))
             ELSE Arm([account EXCEPT
                          !.transactions[transaction_id] = r.rec,
                          !.active_dispute_total = @ + r.rec.amount],
                      Ok)

\* Variant of the Dispute arm: the disputed amount is not added to the total.
handle_Dispute_noHold(account, transaction_id) ==
    IF ~contains_key(account.transactions, transaction_id)
    THEN Arm(account, DisputedTransactionNotFound(transaction_id))
    ELSE LET r == disputed(account.transactions[transaction_id])
         IN  IF ~r.ok
             THEN Arm([account EXCEPT !.transactions[transaction_id] = r.rec],
                      InvalidDisputeState(r.err))
             ELSE Arm([account EXCEPT !.transactions[transaction_id] = r.rec], Ok)

handle_Dispute(account, transaction_id) ==
    IF ~contains_key(account.transactions, transaction_id)
    THEN Arm(account, DisputedTransactionNotFound(transaction_id))
    ELSE LET r == disputed(account.transactions[transaction_id])
         IN  IF ~r.ok
             THEN Arm([account EXCEPT !.transactions[transaction_id] = r.rec],
                      InvalidDisputeState(r.err))
             ELSE Arm([account EXCEPT
                          !.transactions[transaction_id] = r.rec,
                          !.active_dispute_total = @ + r.rec.amount],
                      Ok)

\* Variant of the Resolve arm: the result of resolved() is ignored.
handle_Resolve_anyState(account, transaction_id) ==
    IF ~contains_key(account.transactions, transaction_id)
    THEN Arm(account, DisputedTransactionNotFound(transaction_id))
    ELSE LET r == resolved(account.transactions[transaction_id])
             resolved_amount == r.rec.amount
             acc1 == [account EXCEPT !.transactions[transaction_id] = r.rec]
         IN  Arm(free_disputed_amount(acc1, resolved_amount).account, Ok)

\* Variant of the Resolve arm: the amount is freed but the record is left Disputed.
handle_Resolve_staysDisputed(account, transaction_id) ==
    IF ~contains_key(account.transactions, transaction_id)
    THEN Arm(account, DisputedTransactionNotFound(transaction_id))
    ELSE LET r == resolved(account.transactions[transaction_id])
         IN  IF ~r.ok
             THEN Arm(account, InvalidDisputeState(r.err))
             ELSE Arm(free_disputed_amount(account, r.rec.amount).account, Ok)

\* Variant of the Resolve arm: the disputed amount is not freed.
handle_Resolve_noFree(account, transaction_id) ==
    IF ~contains_key(account.transactions, transaction_id)
    THEN Arm(account, DisputedTransactionNotFound(transaction_id))
    ELSE LET r == resolved(account.transactions[transaction_id])
         IN  IF ~r.ok
             THEN Arm([account EXCEPT !.transactions[transaction_id] = r.rec],
                      InvalidDisputeState(r.err))
             ELSE Arm([account EXCEPT !.transactions[transaction_id] = r.rec], Ok)

handle_Resolve(account, transaction_id) ==
    IF ~contains_key(account.transactions, transaction_id)
    THEN Arm(account, DisputedTransactionNotFound(transaction_id))
    ELSE LET r == resolved(account.transactions[transaction_id])
         IN  IF ~r.ok
             THEN Arm([account EXCEPT !.transactions[transaction_id] = r.rec],
                      InvalidDisputeState(r.err))
             ELSE LET resolved_amount == r.rec.amount
                      acc1 == [account EXCEPT !.transactions[transaction_id] = r.rec]
                  IN  Arm(free_disputed_amount(acc1, resolved_amount).account, Ok)

\* Variant of the Chargeback arm: the account is not locked.
handle_Chargeback_noLock(account, transaction_id) ==
    IF ~contains_key(account.transactions, transaction_id)
    THEN Arm(account, DisputedTransactionNotFound(transaction_id))
    ELSE LET r == refunded(account.transactions[transaction_id])
         IN  IF ~r.ok
             THEN Arm([account EXCEPT !.transactions[transaction_id] = r.rec],
                      InvalidDisputeState(r.err))
             ELSE LET cb_amount == r.rec.amount
                      acc1 == [account EXCEPT !.transactions[transaction_id] = r.rec]
                      acc2 == free_disputed_amount(acc1, cb_amount).account
                  IN  Arm([acc2 EXCEPT !.total_funds = @ - cb_amount], Ok)

\* Variant of the Chargeback arm: the whole disputed total is debited.
handle_Chargeback_debitDisputed(account, transaction_id) ==
    IF ~contains_key(account.transactions, transaction_id)
    THEN Arm(account, DisputedTransactionNotFound(transaction_id))
    ELSE LET r == refunded(account.transactions[transaction_id])
         IN  IF ~r.ok
             THEN Arm([account EXCEPT !.transactions[transaction_id] = r.rec],
                      InvalidDisputeState(r.err))
             ELSE LET cb_amount == r.rec.amount
                      acc1 == [account EXCEPT !.transactions[transaction_id] = r.rec]
                      acc2 == free_disputed_amount(acc1, cb_amount).account
                  IN  Arm([acc2 EXCEPT
                              !.total_funds = @ - account.active_dispute_total,
                              !.locked = TRUE],
                          Ok)

\* Variant of the Chargeback arm: total_funds is not debited.
handle_Chargeback_noDebit(account, transaction_id) ==
    IF ~contains_key(account.transactions, transaction_id)
    THEN Arm(account, DisputedTransactionNotFound(transaction_id))
    ELSE LET r == refunded(account.transactions[transaction_id])
         IN  IF ~r.ok
             THEN Arm([account EXCEPT !.transactions[transaction_id] = r.rec],
                      InvalidDisputeState(r.err))
             ELSE LET cb_amount == r.rec.amount
                      acc1 == [account EXCEPT !.transactions[transaction_id] = r.rec]
                      acc2 == free_disputed_amount(acc1, cb_amount).account
                  IN  Arm([acc2 EXCEPT !.locked = TRUE], Ok)

handle_Chargeback(account, transaction_id) ==
    IF ~contains_key(account.transactions, transaction_id)
    THEN Arm(account, DisputedTransactionNotFound(transaction_id))
    ELSE LET r == refunded(account.transactions[transaction_id])
         IN  IF ~r.ok
             THEN Arm([account EXCEPT !.transactions[transaction_id] = r.rec],
                      InvalidDisputeState(r.err))
             ELSE LET cb_amount == r.rec.amount
                      acc1 == [account EXCEPT !.transactions[transaction_id] = r.rec]
                      acc2 == free_disputed_amount(acc1, cb_amount).account
                  IN  Arm([acc2 EXCEPT
                              !.total_funds = @ - cb_amount,
                              !.locked = TRUE],
                          Ok)

\* The match on the transaction kind.
handle_match(account, tx) ==
    CASE tx.kind = "Deposit" -> handle_Deposit(account, tx.transaction_id, tx.amount)
      [] tx.kind = "Withdrawal" -> handle_Withdrawal(account, tx.amount)
      [] tx.kind = "Dispute" -> handle_Dispute(account, tx.transaction_id)
      [] tx.kind = "Resolve" -> handle_Resolve(account, tx.transaction_id)
      [] tx.kind = "Chargeback" -> handle_Chargeback(account, tx.transaction_id)

\* Variant of handle: the lock is checked for deposits and withdrawals only.
handle_lockFundsOnly(state, tx) ==
    LET store == get_account_mut(state, tx.client_id)
        account == store[tx.client_id]
    IN  IF account.locked /\ tx.kind \in {"Deposit", "Withdrawal"}
        THEN [state |-> store, res |-> AccountLocked]
        ELSE LET arm == handle_match(account, tx)
             IN  [state |-> [store EXCEPT ![tx.client_id] = arm.account],
                  res |-> arm.res]

\* Variant of handle: a Deposit is refused when any account holds a record under its id.
handle_globalIds(state, tx) ==
    LET store == get_account_mut(state, tx.client_id)
        account == store[tx.client_id]
    IN  IF account.locked
        THEN [state |-> store, res |-> AccountLocked]
        ELSE IF /\ tx.kind = "Deposit"
                /\ \E d \in DOMAIN store : contains_key(store[d].transactions, tx.transaction_id)
        THEN [state |-> store, res |-> RepeatTransaction(tx.transaction_id)]
        ELSE LET arm == handle_match(account, tx)
             IN  [state |-> [store EXCEPT ![tx.client_id] = arm.account],
                  res |-> arm.res]

\* Variant of handle: a chargeback locks every account of the store.
handle_lockAll(state, tx) ==
    LET store == get_account_mut(state, tx.client_id)
        account == store[tx.client_id]
    IN  IF account.locked
        THEN [state |-> store, res |-> AccountLocked]
        ELSE LET arm == handle_match(account, tx)
                 left == [store EXCEPT ![tx.client_id] = arm.account]
             IN  [state |-> IF tx.kind = "Chargeback" /\ arm.res = Ok
                            THEN [d \in DOMAIN left |-> [left[d] EXCEPT !.locked = TRUE]]
                            ELSE left,
                  res |-> arm.res]

\* Variant of handle: no lock check.
handle_noLockCheck(state, tx) ==
    LET store == get_account_mut(state, tx.client_id)
        account == store[tx.client_id]
        arm == handle_match(account, tx)
    IN  [state |-> [store EXCEPT ![tx.client_id] = arm.account], res |-> arm.res]

\* TxEngine::handle: the store as left by the call and the returned value.
handle(state, tx) ==
    LET store == get_account_mut(state, tx.client_id)
        account == store[tx.client_id]
    IN  IF account.locked
        THEN [state |-> store, res |-> AccountLocked]
        ELSE LET arm == handle_match(account, tx)
             IN  [state |-> [store EXCEPT ![tx.client_id] = arm.account],
                  res |-> arm.res]

\* ---------------------------------------------------------------- the engine as a state machine
NoCall == [tx |-> NoTx, res |-> Ok]

NoRecord == [amount |-> 0, dispute_status |-> "NotDisputed"]

NoRecordCall == [op |-> "None", ok |-> TRUE, err |-> <<>>]

NoFreeCall == [called |-> FALSE, amount |-> 0, flag |-> FALSE]

Init ==
    /\ data = InMemoryStore_new
    /\ last = NoCall
    /\ steps = 0
    /\ tx_record = NoRecord
    /\ tx_call = NoRecordCall
    /\ rejected_transactions = <<>>
    /\ dead_letter_queue = <<>>
    /\ free_call = NoFreeCall

\* Client and transaction ids are HashMap keys: the code only tests them for
\* equality, so renaming the clients, or the ids within one account, maps a run
\* to a run.  One run of each class is explored: clients are first named in the
\* order 1, 2, ..., and within an account ids are first deposited in the order
\* 1, 2, ...; the next id to be deposited stands for every id unknown to the
\* account.
InOrder(tx) ==
    /\ tx.client_id <= Cardinality(DOMAIN data) + 1
    /\ tx.transaction_id
           <= Cardinality(DOMAIN get_account_mut(data, tx.client_id)[tx.client_id].transactions) + 1

\* One handle call, the n-th at most.
Handle(tx, n) ==
    LET r == handle(data, tx)
    IN  /\ steps < n
        /\ InOrder(tx)
        /\ steps' = steps + 1
        /\ data' = r.state
        /\ last' = [tx |-> tx, res |-> r.res]
        /\ UNCHANGED <<tx_record, tx_call, rejected_transactions, dead_letter_queue, free_call>>

Deposit ==
    \E c \in Clients, t \in TxIds, a \in Amounts : Handle(DepositTx(c, t, a), MaxSteps)

Withdrawal ==
    \E c \in Clients, t \in TxIds, a \in Amounts : Handle(WithdrawalTx(c, t, a), MaxSteps)

Dispute == \E c \in Clients, t \in TxIds : Handle(DisputeTx(c, t), MaxSteps)

Resolve == \E c \in Clients, t \in TxIds : Handle(ResolveTx(c, t), MaxSteps)

Chargeback == \E c \in Clients, t \in TxIds : Handle(ChargebackTx(c, t), MaxSteps)

Next == Deposit \/ Withdrawal \/ Dispute \/ Resolve \/ Chargeback

Spec == Init /\ [][Next]_vars

\* ---------------------------------------------------------------- the engine fed one client's transactions
AccountDeposit ==
    \E t \in AccountTxIds, a \in AccountAmounts :
        Handle(DepositTx(1, t, a), MaxAccountSteps)

AccountWithdrawal ==
    \E t \in AccountTxIds, a \in AccountAmounts :
        Handle(WithdrawalTx(1, t, a), MaxAccountSteps)

AccountDispute == \E t \in AccountTxIds : Handle(DisputeTx(1, t), MaxAccountSteps)

AccountResolve == \E t \in AccountTxIds : Handle(ResolveTx(1, t), MaxAccountSteps)

AccountChargeback == \E t \in AccountTxIds : Handle(ChargebackTx(1, t), MaxAccountSteps)

AccountNext ==
    \/ AccountDeposit
    \/ AccountWithdrawal
    \/ AccountDispute
    \/ AccountResolve
    \/ AccountChargeback

AccountSpec == Init /\ [][AccountNext]_vars

\* ---------------------------------------------------------------- the engine fed two clients' transactions
ShardDeposit ==
    \E c \in ShardClients, t \in ShardTxIds, a \in Amounts :
        Handle(DepositTx(c, t, a), MaxShardSteps)

ShardWithdrawal ==
    \E c \in ShardClients, t \in ShardTxIds, a \in Amounts :
        Handle(WithdrawalTx(c, t, a), MaxShardSteps)

ShardDispute ==
    \E c \in ShardClients, t \in ShardTxIds : Handle(DisputeTx(c, t), MaxShardSteps)

ShardResolve ==
    \E c \in ShardClients, t \in ShardTxIds : Handle(ResolveTx(c, t), MaxShardSteps)

ShardChargeback ==
    \E c \in ShardClients, t \in ShardTxIds : Handle(ChargebackTx(c, t), MaxShardSteps)

ShardNext ==
    \/ ShardDeposit
    \/ ShardWithdrawal
    \/ ShardDispute
    \/ ShardResolve
    \/ ShardChargeback

ShardSpec == Init /\ [][ShardNext]_vars

\* ---------------------------------------------------------------- a DepositRecord on its own
RecordInit ==
    /\ data = InMemoryStore_new
    /\ last = NoCall
    /\ steps = 0
    /\ tx_record \in {DepositRecord_new(a) : a \in RecordAmounts}
    /\ tx_call = NoRecordCall
    /\ rejected_transactions = <<>>
    /\ dead_letter_queue = <<>>
    /\ free_call = NoFreeCall

RecordCall(op, r) ==
    /\ tx_record' = r.rec
    /\ tx_call' = [op |-> op, ok |-> r.ok, err |-> r.err]
    /\ UNCHANGED <<data, last, steps, rejected_transactions, dead_letter_queue, free_call>>

CallDisputed == RecordCall("disputed", disputed(tx_record))

CallResolved == RecordCall("resolved", resolved(tx_record))

CallRefunded == RecordCall("refunded", refunded(tx_record))

RecordNext == CallDisputed \/ CallResolved \/ CallRefunded

RecordSpec == RecordInit /\ [][RecordNext]_vars

\* ---------------------------------------------------------------- an Account on its own
\* Accounts as the unit tests of account.rs build them: the fields set freely.
FreeAccounts ==
    {[client |-> 1, total_funds |-> total, active_dispute_total |-> disputed_total,
      locked |-> locked, transactions |-> transactions] :
        total \in (-MaxFreeAmount)..MaxFreeAmount,
        disputed_total \in FreeAmounts,
        locked \in BOOLEAN,
        transactions \in {EmptyMap,
                          insert(EmptyMap, 1, [amount |-> 1, dispute_status |-> "Disputed"])}}

FreeInit ==
    /\ data \in {insert(InMemoryStore_new, 1, account) : account \in FreeAccounts}
    /\ last = NoCall
    /\ steps = 0
    /\ tx_record = NoRecord
    /\ tx_call = NoRecordCall
    /\ rejected_transactions = <<>>
    /\ dead_letter_queue = <<>>
    /\ free_call = NoFreeCall

CallFree ==
    \E amount \in FreeAmounts :
        LET r == free_disputed_amount(data[1], amount)
        IN  /\ data' = [data EXCEPT ![1] = r.account]
            /\ free_call' = [called |-> TRUE, amount |-> amount, flag |-> r.flag]
            /\ UNCHANGED <<last, steps, tx_record, tx_call, rejected_transactions,
                           dead_letter_queue>>

FreeNext == CallFree

FreeSpec == FreeInit /\ [][FreeNext]_vars

\* ---------------------------------------------------------------- run_with_csv
RawTypes == {"deposit", "withdrawal", "dispute", "resolve", "chargeback", "transfer"}

RawRows ==
    {TransactionRaw(typ, 1, t, amount) :
        typ \in RawTypes, t \in TxIds, amount \in {None} \cup {Some(v) : v \in RawAmounts}}

\* One turn of the loop on a row that deserialized.
ProcessRow(transaction_raw) ==
    LET tx_id == transaction_raw.tx
        parsed == try_from(transaction_raw)
        res == handle(data, parsed.tx)
    IN  /\ steps < MaxCsvRows
        /\ InOrder([client_id |-> transaction_raw.client, transaction_id |-> tx_id])
        /\ steps' = steps + 1
        /\ UNCHANGED <<tx_record, tx_call, free_call>>
        /\ IF ~parsed.ok
           THEN /\ rejected_transactions'
                     = Append(rejected_transactions, <<tx_id, <<"Malformed Transaction">>>>)
                /\ last' = NoCall
                /\ UNCHANGED <<data, dead_letter_queue>>
           ELSE /\ data' = res.state
                /\ last' = [tx |-> parsed.tx, res |-> res.res]
                /\ IF res.res.tag = "Ok"
                   THEN UNCHANGED <<rejected_transactions, dead_letter_queue>>
                   ELSE IF is_failure(res.res)
                   THEN /\ dead_letter_queue'
                             = Append(dead_letter_queue, <<parsed.tx, to_string(res.res)>>)
                        /\ UNCHANGED rejected_transactions
                   ELSE /\ rejected_transactions'
                             = Append(rejected_transactions, <<tx_id, to_string(res.res)>>)
                        /\ UNCHANGED dead_letter_queue

CsvRow == \E transaction_raw \in RawRows : ProcessRow(transaction_raw)

\* One turn of the loop on a row that did not deserialize: it is passed over.
CsvSkip ==
    /\ steps < MaxCsvRows
    /\ steps' = steps + 1
    /\ last' = NoCall
    /\ UNCHANGED <<data, tx_record, tx_call, rejected_transactions, dead_letter_queue,
                   free_call>>

CsvNext == CsvRow \/ CsvSkip

CsvSpec == Init /\ [][CsvNext]_vars

\* ---------------------------------------------------------------- properties
\* The account handle works on: the stored one, or the one get_account_mut creates.
PreAccount(c) == IF c \in DOMAIN data THEN data[c] ELSE Account_new(c)

\* This step is a handle call (last' holds its transaction and result).
Called == steps' # steps

DisputeFamily == {"Dispute", "Resolve", "Chargeback"}

\* Sum of the amounts of the records of map under the keys in ks.
RECURSIVE SumAmounts(_, _)
SumAmounts(map, ks) ==
    IF ks = {} THEN 0
    ELSE LET k == CHOOSE x \in ks : TRUE
         IN  map[k].amount + SumAmounts(map, ks \ {k})

DisputedIds(account) ==
    {t \in DOMAIN account.transactions :
        account.transactions[t].dispute_status = "Disputed"}

RefundedIds(account) ==
    {t \in DOMAIN account.transactions :
        account.transactions[t].dispute_status = "Refunded"}

\* C1: whenever handle returns Err, the target account (total_funds,
\* active_dispute_total, locked, transaction ids, every record) is as it was
\* before the call (as get_account_mut created it, if the client was unknown),
\* and no other account changes.
C1_AllOrNothing ==
    [][ (Called /\ last'.res.tag # "Ok") =>
            LET c == last'.tx.client_id
            IN  /\ DOMAIN data' = DOMAIN data \cup {c}
                /\ data'[c] = PreAccount(c)
                /\ \A d \in DOMAIN data : data'[d] = data[d] ]_vars

\* C1 witness: a withdrawal refused for insufficient funds on an account that
\* holds funds and has an active dispute.
C1_Witness ==
    /\ last.res.tag = "InsufficientFunds"
    /\ data[last.tx.client_id].total_funds > 0
    /\ data[last.tx.client_id].active_dispute_total > 0

\* C2: on a locked account handle returns AccountLocked for every transaction
\* kind, whatever the id or amount, and mutates nothing.
C2_LockedRejectsAll ==
    [][ (Called /\ last'.tx.client_id \in DOMAIN data
                /\ data[last'.tx.client_id].locked) =>
            /\ last'.res = AccountLocked
            /\ data' = data ]_vars

\* C2 witness: a dispute-family transaction naming an unknown id, and refused
\* as AccountLocked.
C2_Witness ==
    /\ last.res.tag = "AccountLocked"
    /\ last.tx.kind \in DisputeFamily
    /\ last.tx.transaction_id \notin DOMAIN data[last.tx.client_id].transactions

\* C3: once locked, an account stays locked and its total_funds,
\* active_dispute_total and records never change again.
C3_LockPermanent ==
    [][ \A c \in DOMAIN data :
            data[c].locked => (c \in DOMAIN data' /\ data'[c] = data[c]) ]_vars

\* C3 witness: a locked account that still has a Disputed record, after a
\* Resolve of that record was refused.
C3_Witness ==
    /\ last.res.tag = "AccountLocked"
    /\ last.tx.kind = "Resolve"
    /\ data[last.tx.client_id].locked
    /\ last.tx.transaction_id \in DisputedIds(data[last.tx.client_id])

\* C4: a DepositRecord starts NotDisputed; disputed() moves NotDisputed and
\* Resolved to Disputed, resolved() moves Disputed to Resolved, refunded() moves
\* Disputed to Refunded; called from any other state the operation returns Err
\* and leaves status and amount unchanged.
C4_RecordStateMachine ==
    /\ tx_record.dispute_status = "NotDisputed"
    /\ [][ LET s == tx_record.dispute_status
               op == tx_call'.op
               allowed == \/ op = "disputed" /\ s \in {"NotDisputed", "Resolved"}
                          \/ op = "resolved" /\ s = "Disputed"
                          \/ op = "refunded" /\ s = "Disputed"
               target == CASE op = "disputed" -> "Disputed"
                           [] op = "resolved" -> "Resolved"
                           [] op = "refunded" -> "Refunded"
           IN  /\ op \in {"disputed", "resolved", "refunded"}
               /\ tx_record'.amount = tx_record.amount
               /\ allowed => (tx_call'.ok /\ tx_record'.dispute_status = target)
               /\ ~allowed => (~tx_call'.ok /\ tx_record'.dispute_status = s) ]_vars

\* C4 witness: disputed() refused on a Refunded record.
C4_Witness ==
    /\ tx_call.op = "disputed"
    /\ ~tx_call.ok
    /\ tx_record.dispute_status = "Refunded"

\* The transaction of this step names a record of its client's account whose
\* state forbids the requested transition.
BadDisputeState ==
    /\ Called
    /\ last'.tx.client_id \in DOMAIN data
    /\ last'.tx.transaction_id \in DOMAIN data[last'.tx.client_id].transactions
    /\ LET s == data[last'.tx.client_id].transactions[last'.tx.transaction_id].dispute_status
       IN  \/ last'.tx.kind = "Dispute" /\ s \in {"Disputed", "Refunded"}
           \/ last'.tx.kind \in {"Resolve", "Chargeback"} /\ s # "Disputed"

\* C5 as stated: a Dispute of a Disputed or Refunded record, and a Resolve or
\* Chargeback of a record that is not Disputed, fail with InvalidDisputeState
\* and mutate nothing.
C5_Original ==
    [][ BadDisputeState =>
            /\ last'.res.tag = "InvalidDisputeState"
            /\ data' = data ]_vars

\* C5 amended: the same on an unlocked account; on a locked account the
\* transaction fails with AccountLocked instead; nothing is mutated either way.
C5_Amended ==
    [][ BadDisputeState =>
            /\ data' = data
            /\ last'.res.tag = IF data[last'.tx.client_id].locked
                               THEN "AccountLocked"
                               ELSE "InvalidDisputeState" ]_vars

\* C5 witness: a Chargeback of a Resolved record refused with
\* InvalidDisputeState.
C5_Witness ==
    /\ last.res.tag = "InvalidDisputeState"
    /\ last.tx.kind = "Chargeback"
    /\ data[last.tx.client_id].transactions[last.tx.transaction_id].dispute_status
           = "Resolved"

\* C6: a Refunded record stays Refunded, every later Dispute, Resolve or
\* Chargeback naming it is rejected, and its account is locked.
C6_RefundedTerminal ==
    /\ [](\A c \in DOMAIN data : RefundedIds(data[c]) # {} => data[c].locked)
    /\ [][ \A c \in DOMAIN data : \A t \in RefundedIds(data[c]) :
              /\ c \in DOMAIN data'
              /\ t \in RefundedIds(data'[c])
              /\ (Called /\ last'.tx.client_id = c /\ last'.tx.transaction_id = t
                         /\ last'.tx.kind \in DisputeFamily)
                     => last'.res.tag # "Ok" ]_vars

\* C6 witness: a Dispute naming a Refunded record was rejected.
C6_Witness ==
    /\ last.tx.kind = "Dispute"
    /\ last.res.tag # "Ok"
    /\ last.tx.transaction_id \in RefundedIds(data[last.tx.client_id])

\* C7: for every account, available_funds() >= 0 and
\* held_funds() <= max(total_funds, 0).
C7_FundsBounds ==
    \A c \in DOMAIN data :
        /\ available_funds(data[c]) >= 0
        /\ held_funds(data[c]) <= max(data[c].total_funds, 0)

\* C7 witness: an account whose disputed total exceeds its total funds.
C7_Witness ==
    \E c \in DOMAIN data :
        /\ data[c].active_dispute_total > data[c].total_funds
        /\ data[c].total_funds >= 0

\* C8: total_funds < 0 implies the account is locked and has a Refunded
\* record; a Deposit, Withdrawal, Dispute or Resolve never takes total_funds
\* from non-negative to negative.
C8_NegativeOnlyAfterChargeback ==
    /\ [](\A c \in DOMAIN data :
              data[c].total_funds < 0 =>
                  (data[c].locked /\ RefundedIds(data[c]) # {}))
    /\ [][ (Called /\ last'.tx.kind # "Chargeback"
                   /\ PreAccount(last'.tx.client_id).total_funds >= 0) =>
               data'[last'.tx.client_id].total_funds >= 0 ]_vars

\* C8 witness: an overdrawn account.
C8_Witness == \E c \in DOMAIN data : data[c].total_funds < 0

\* C9: active_dispute_total is non-negative and is the sum of the amounts of
\* the account's Disputed records.
C9_DisputeTotalIsSum ==
    \A c \in DOMAIN data :
        /\ data[c].active_dispute_total >= 0
        /\ data[c].active_dispute_total
               = SumAmounts(data[c].transactions, DisputedIds(data[c]))

\* C9 witness: after a successful Resolve, an account with one record still
\* Disputed and one Resolved.
C9_Witness ==
    /\ last.tx.kind = "Resolve"
    /\ last.res.tag = "Ok"
    /\ DisputedIds(data[last.tx.client_id]) # {}

\* C10: a Deposit with an id not yet in the unlocked target account succeeds,
\* adds the amount to total_funds, inserts a NotDisputed record with that
\* amount under the id, and changes nothing else.
C10_DepositApplied ==
    [][ (Called /\ last'.tx.kind = "Deposit"
                /\ ~PreAccount(last'.tx.client_id).locked
                /\ last'.tx.transaction_id
                       \notin DOMAIN PreAccount(last'.tx.client_id).transactions) =>
            LET c == last'.tx.client_id
                t == last'.tx.transaction_id
                pre == PreAccount(c)
                post == data'[c]
            IN  /\ last'.res.tag = "Ok"
                /\ post.total_funds = pre.total_funds + last'.tx.amount
                /\ DOMAIN post.transactions = DOMAIN pre.transactions \cup {t}
                /\ post.transactions[t].amount = last'.tx.amount
                /\ post.transactions[t].dispute_status = "NotDisputed"
                /\ \A u \in DOMAIN pre.transactions :
                       post.transactions[u] = pre.transactions[u]
                /\ post.active_dispute_total = pre.active_dispute_total
                /\ post.locked = pre.locked
                /\ post.client = pre.client ]_vars

\* C10 witness: a deposit applied to an account that already had a Disputed
\* record.
C10_Witness ==
    /\ last.tx.kind = "Deposit"
    /\ last.res.tag = "Ok"
    /\ DisputedIds(data[last.tx.client_id]) # {}
    /\ data[last.tx.client_id].transactions[last.tx.transaction_id].dispute_status
           = "NotDisputed"

\* C11: with no active dispute, a successful Deposit of amount a increases
\* available_funds() by exactly a.
C11_DepositRaisesAvailable ==
    [][ (Called /\ last'.tx.kind = "Deposit" /\ last'.res.tag = "Ok"
                /\ PreAccount(last'.tx.client_id).active_dispute_total = 0) =>
            available_funds(data'[last'.tx.client_id])
                = available_funds(PreAccount(last'.tx.client_id)) + last'.tx.amount ]_vars

\* C11 witness: a deposit applied to an account with funds, an earlier record
\* and no active dispute.
C11_Witness ==
    /\ last.tx.kind = "Deposit"
    /\ last.res.tag = "Ok"
    /\ data[last.tx.client_id].active_dispute_total = 0
    /\ data[last.tx.client_id].total_funds > last.tx.amount
    /\ Cardinality(DOMAIN data[last.tx.client_id].transactions) = 2

\* C12: a Deposit whose id already has a record in the client's account fails
\* with RepeatTransaction(id), or AccountLocked once the account is locked, and
\* changes nothing, whatever the record's state and the amount replayed; records
\* are never removed and keep their amount.
C12_NoSecondDeposit ==
    [][ /\ (Called /\ last'.tx.kind = "Deposit"
                   /\ last'.tx.transaction_id
                          \in DOMAIN PreAccount(last'.tx.client_id).transactions) =>
               /\ data' = data
               /\ last'.res = IF data[last'.tx.client_id].locked
                              THEN AccountLocked
                              ELSE RepeatTransaction(last'.tx.transaction_id)
        /\ \A c \in DOMAIN data : \A t \in DOMAIN data[c].transactions :
               /\ c \in DOMAIN data'
               /\ t \in DOMAIN data'[c].transactions
               /\ data'[c].transactions[t].amount = data[c].transactions[t].amount ]_vars

\* C12 witness: the replay of a deposit with another amount, refused while the
\* record is Disputed.
C12_Witness ==
    /\ last.tx.kind = "Deposit"
    /\ last.res.tag = "RepeatTransaction"
    /\ last.res.id = last.tx.transaction_id
    /\ data[last.tx.client_id].transactions[last.tx.transaction_id].dispute_status
           = "Disputed"
    /\ data[last.tx.client_id].transactions[last.tx.transaction_id].amount
           # last.tx.amount

C14_Original ==
    [][ (Called /\ last'.tx.kind = "Withdrawal"
                /\ last'.tx.amount > available_funds(PreAccount(last'.tx.client_id))) =>
            /\ last'.res = InsufficientFunds
            /\ data'[last'.tx.client_id] = PreAccount(last'.tx.client_id) ]_vars

\* C14 amended: such a Withdrawal mutates nothing and returns InsufficientFunds
\* on an unlocked account, AccountLocked on a locked one.
C14_Amended ==
    [][ (Called /\ last'.tx.kind = "Withdrawal"
                /\ last'.tx.amount > available_funds(PreAccount(last'.tx.client_id))) =>
            /\ last'.res = IF PreAccount(last'.tx.client_id).locked
                           THEN AccountLocked
                           ELSE InsufficientFunds
            /\ data'[last'.tx.client_id] = PreAccount(last'.tx.client_id) ]_vars

\* C14 witness: a withdrawal refused although the amount is within total_funds,
\* part of the funds being held.
C14_Witness ==
    /\ last.tx.kind = "Withdrawal"
    /\ last.res.tag = "InsufficientFunds"
    /\ last.tx.amount <= data[last.tx.client_id].total_funds
    /\ available_funds(data[last.tx.client_id]) > 0

\* C15: on an unlocked account a Dispute, Resolve or Chargeback whose id has no
\* record in the client's own account fails with DisputedTransactionNotFound(id)
\* and mutates nothing, also when another client deposited under that id.
C15_NotFound ==
    [][ (Called /\ last'.tx.kind \in DisputeFamily
                /\ ~PreAccount(last'.tx.client_id).locked
                /\ last'.tx.transaction_id
                       \notin DOMAIN PreAccount(last'.tx.client_id).transactions) =>
            /\ last'.res = DisputedTransactionNotFound(last'.tx.transaction_id)
            /\ data'[last'.tx.client_id] = PreAccount(last'.tx.client_id)
            /\ \A d \in DOMAIN data : data'[d] = data[d] ]_vars

\* C15 witness: an id refused as not found for one client while another
\* client's account has a record under it.
C15_Witness ==
    /\ last.tx.kind \in DisputeFamily
    /\ last.res.tag = "DisputedTransactionNotFound"
    /\ last.res.id = last.tx.transaction_id
    /\ data[last.tx.client_id].total_funds > 0
    /\ \E d \in DOMAIN data \ {last.tx.client_id} :
           last.tx.transaction_id \in DOMAIN data[d].transactions

\* C16: a successful Dispute of a record of amount a adds a to
\* active_dispute_total and leaves total_funds and locked alone; if
\* available_funds() was at least a, it drops by a and held_funds() rises by a.
C16_Dispute ==
    [][ (Called /\ last'.tx.kind = "Dispute" /\ last'.res.tag = "Ok") =>
            LET pre == PreAccount(last'.tx.client_id)
                post == data'[last'.tx.client_id]
                a == pre.transactions[last'.tx.transaction_id].amount
            IN  /\ post.active_dispute_total = pre.active_dispute_total + a
                /\ post.total_funds = pre.total_funds
                /\ post.locked = pre.locked
                /\ available_funds(pre) >= a =>
                       /\ available_funds(post) = available_funds(pre) - a
                       /\ held_funds(post) = held_funds(pre) + a ]_vars

\* C16 witness: a second dispute opened on an account whose funds cover both.
C16_Witness ==
    /\ last.tx.kind = "Dispute"
    /\ last.res.tag = "Ok"
    /\ Cardinality(DisputedIds(data[last.tx.client_id])) = 2
    /\ data[last.tx.client_id].total_funds
           >= data[last.tx.client_id].active_dispute_total

\* C17: from a state where Dispute of a record succeeds, Dispute then Resolve
\* of it succeed and restore total_funds, active_dispute_total,
\* available_funds() and held_funds(), the record ending Resolved; a further
\* Dispute of it succeeds and leaves the account as the first one did.
C17_RoundTrip ==
    \A c \in DOMAIN data : \A t \in DOMAIN data[c].transactions :
        LET d1 == handle(data, DisputeTx(c, t))
            d2 == handle(d1.state, ResolveTx(c, t))
            d3 == handle(d2.state, DisputeTx(c, t))
        IN  d1.res.tag = "Ok" =>
                /\ d2.res.tag = "Ok"
                /\ d2.state[c].total_funds = data[c].total_funds
                /\ d2.state[c].active_dispute_total = data[c].active_dispute_total
                /\ available_funds(d2.state[c]) = available_funds(data[c])
                /\ held_funds(d2.state[c]) = held_funds(data[c])
                /\ d2.state[c].transactions[t].dispute_status = "Resolved"
                /\ d3.res.tag = "Ok"
                /\ d3.state[c] = d1.state[c]

\* C17 witness: a disputed record resolved while another record of the account
\* is still Disputed.
C17_Witness ==
    /\ last.tx.kind = "Resolve"
    /\ last.res.tag = "Ok"
    /\ data[last.tx.client_id].active_dispute_total > 0
    /\ data[last.tx.client_id].transactions[last.tx.transaction_id].dispute_status
           = "Resolved"

\* C18: a successful Chargeback of a Disputed record of amount a leaves it
\* Refunded, takes a from active_dispute_total and from total_funds and locks
\* the account; available_funds() is unchanged when total_funds was at least
\* active_dispute_total.
C18_Chargeback ==
    [][ (Called /\ last'.tx.kind = "Chargeback" /\ last'.res.tag = "Ok") =>
            LET pre == PreAccount(last'.tx.client_id)
                post == data'[last'.tx.client_id]
                t == last'.tx.transaction_id
                a == pre.transactions[t].amount
            IN  /\ pre.transactions[t].dispute_status = "Disputed"
                /\ post.transactions[t].dispute_status = "Refunded"
                /\ post.transactions[t].amount = a
                /\ post.active_dispute_total = pre.active_dispute_total - a
                /\ post.total_funds = pre.total_funds - a
                /\ post.locked
                /\ pre.total_funds - pre.active_dispute_total >= 0 =>
                       available_funds(post) = available_funds(pre) ]_vars

\* C18 witness: a chargeback applied while another record stays Disputed and
\* funds stay available.
C18_Witness ==
    /\ last.tx.kind = "Chargeback"
    /\ last.res.tag = "Ok"
    /\ DisputedIds(data[last.tx.client_id]) # {}
    /\ data[last.tx.client_id].total_funds >= data[last.tx.client_id].active_dispute_total

\* C19: a Chargeback of an amount above total_funds leaves total_funds < 0,
\* available_funds() = 0, held_funds() = 0 and the account locked.
C19_Overdrawn ==
    [][ (Called /\ last'.tx.kind = "Chargeback" /\ last'.res.tag = "Ok"
                /\ PreAccount(last'.tx.client_id).transactions[last'.tx.transaction_id].amount
                       > PreAccount(last'.tx.client_id).total_funds) =>
            LET post == data'[last'.tx.client_id]
            IN  /\ post.total_funds < 0
                /\ available_funds(post) = 0
                /\ held_funds(post) = 0
                /\ post.locked ]_vars

\* C19 witness: Deposit 2, Deposit 1, Withdrawal 2, Dispute and Chargeback of
\* the first deposit: total_funds is -1.
C19_Witness ==
    /\ last.tx.kind = "Chargeback"
    /\ last.res.tag = "Ok"
    /\ data[last.tx.client_id].total_funds = -1
    /\ data[last.tx.client_id].transactions[last.tx.transaction_id].amount = 2
    /\ Cardinality(DOMAIN data[last.tx.client_id].transactions) = 2

\* The variants of TransactionNotApplied, by tag.
ErrorTags ==
    {"AccountLocked", "RepeatTransaction", "InsufficientFunds",
     "DisputedTransactionNotFound", "InvalidDisputeState", "UnexpectedError"}

\* C20: a typed transaction that handle refuses is appended to exactly one
\* list, the dead-letter list (with the transaction) when is_failure() is true
\* and the rejected list (with its id) when it is false; an applied transaction
\* is appended to neither; is_failure() is false exactly for AccountLocked and
\* InsufficientFunds.
C20_RefusedAreFiled ==
    /\ \A tag \in ErrorTags :
           is_failure([tag |-> tag, id |-> 0, detail |-> <<>>])
               = (tag \notin {"AccountLocked", "InsufficientFunds"})
    /\ [][ (Called /\ last'.tx.kind # "None") =>
               IF last'.res.tag = "Ok"
               THEN /\ rejected_transactions' = rejected_transactions
                    /\ dead_letter_queue' = dead_letter_queue
               ELSE IF last'.res.tag \in {"AccountLocked", "InsufficientFunds"}
               THEN /\ rejected_transactions'
                        = Append(rejected_transactions,
                                 <<last'.tx.transaction_id, to_string(last'.res)>>)
                    /\ dead_letter_queue' = dead_letter_queue
               ELSE /\ dead_letter_queue'
                        = Append(dead_letter_queue, <<last'.tx, to_string(last'.res)>>)
                    /\ rejected_transactions' = rejected_transactions ]_vars

\* C20 witness: after one applied deposit, one transaction is on the rejected
\* list for insufficient funds and the replay of the deposit is on the
\* dead-letter list.
C20_Witness ==
    /\ 1 \in DOMAIN data
    /\ data[1].total_funds > 0
    /\ \E i \in DOMAIN rejected_transactions :
           rejected_transactions[i][2] = <<"Insufficient Funds">>
    /\ \E i \in DOMAIN dead_letter_queue :
           /\ dead_letter_queue[i][1].kind = "Deposit"
           /\ dead_letter_queue[i][2] = <<"Repeat Transaction: ", dead_letter_queue[i][1].transaction_id>>

\* C21: account_statements() yields exactly one statement for each client that
\* was the target of a handle call, also when every transaction of the client
\* was refused, and none for any other client; the statement's available, held,
\* total and locked are the account's available_funds(), held_funds(),
\* total_funds and locked.
StatementClients(store) ==
    LET statements == account_statements(store)
    IN  {statements[i].client : i \in DOMAIN statements}

C21_Statements ==
    /\ account_statements(data) = <<>>
    /\ [][ StatementClients(data')
               = StatementClients(data) \cup (IF Called THEN {last'.tx.client_id} ELSE {}) ]_vars
    /\ [](LET statements == account_statements(data)
          IN  /\ Len(statements) = Cardinality(StatementClients(data))
              /\ \A i \in DOMAIN statements :
                     LET s == statements[i]
                     IN  /\ s.client \in DOMAIN data
                         /\ s.available = available_funds(data[s.client])
                         /\ s.held = held_funds(data[s.client])
                         /\ s.total = data[s.client].total_funds
                         /\ s.locked = data[s.client].locked)

\* C21 witness: one client with funds held and one client whose only
\* transaction was a refused Dispute, reported as 0/0/0/unlocked.
C21_Witness ==
    /\ Len(account_statements(data)) = 2
    /\ \E i \in DOMAIN account_statements(data) :
           /\ account_statements(data)[i].held > 0
           /\ account_statements(data)[i].total > 0
    /\ \E i \in DOMAIN account_statements(data) :
           /\ account_statements(data)[i]
                  = [client |-> last.tx.client_id, available |-> 0, held |-> 0,
                     total |-> 0, locked |-> FALSE]
           /\ last.tx.kind = "Dispute"
           /\ last.res.tag = "DisputedTransactionNotFound"
           /\ data[last.tx.client_id].transactions = EmptyMap

\* C22: get_account_mut(c) on an absent client inserts an account with client
\* c, zero total_funds and active_dispute_total, unlocked and without records,
\* and on a present client leaves the store as it is; get_account returns the
\* stored account or None and creates nothing; an account that is in the store
\* is in it in every later state.
C22_LazyNeverDeleted ==
    /\ [](\A c \in 1..(MaxClient + 1) :
             /\ DOMAIN get_account_mut(data, c) = DOMAIN data \cup {c}
             /\ \A d \in DOMAIN data : get_account_mut(data, c)[d] = data[d]
             /\ c \notin DOMAIN data =>
                    get_account_mut(data, c)[c]
                        = [client |-> c, total_funds |-> 0, active_dispute_total |-> 0,
                           locked |-> FALSE, transactions |-> EmptyMap]
             /\ get_account(data, c).some = (c \in DOMAIN data)
             /\ c \in DOMAIN data => get_account(data, c).value = data[c])
    /\ [][DOMAIN data \subseteq DOMAIN data']_vars

\* C22 witness: a call for an unseen client has just created its account, beside
\* an account that holds a record, and a further client is still absent.
C22_Witness ==
    /\ DOMAIN data = {1, 2}
    /\ data[1].transactions # EmptyMap
    /\ last.tx.client_id = 2
    /\ data[2] = Account_new(2)

\* The clients other than c whose account holds a record under id t.
OtherHolders(c, t) ==
    {d \in DOMAIN data \ {c} : t \in DOMAIN data[d].transactions}

\* C23: transaction ids are unique per account only.  A Deposit for a client
\* whose (unlocked) account has no record under the id succeeds also when
\* another client's account holds a record under that id; a Deposit is refused
\* as RepeatTransaction only for a record of its own client; and a Dispute,
\* Resolve or Chargeback changes no account but the one of the client it names.
C23_PerAccountIds ==
    [][ Called =>
            LET c == last'.tx.client_id
                t == last'.tx.transaction_id
                kind == last'.tx.kind
            IN  /\ (/\ kind = "Deposit"
                    /\ OtherHolders(c, t) # {}
                    /\ ~PreAccount(c).locked
                    /\ t \notin DOMAIN PreAccount(c).transactions)
                       => /\ last'.res = Ok
                          /\ data'[c].transactions[t] = DepositRecord_new(last'.tx.amount)
                          /\ \A d \in OtherHolders(c, t) : data'[d] = data[d]
                /\ (kind = "Deposit" /\ last'.res.tag = "RepeatTransaction")
                       => t \in DOMAIN PreAccount(c).transactions
                /\ kind \in DisputeFamily
                       => \A d \in DOMAIN data \ {c} : data'[d] = data[d] ]_vars

\* C23 witness: two clients deposited under the same id, and a Dispute by the
\* second moved its record only.
C23_Witness ==
    /\ DOMAIN data = {1, 2}
    /\ last.tx.kind = "Dispute"
    /\ last.tx.client_id = 2
    /\ last.res = Ok
    /\ last.tx.transaction_id \in DOMAIN data[1].transactions
    /\ data[1].transactions[last.tx.transaction_id].dispute_status = "NotDisputed"
    /\ data[2].transactions[last.tx.transaction_id].dispute_status = "Disputed"
    /\ data[1].active_dispute_total = 0

\* The store of a shard that owns client c alone: c's account, if there is one.
Shard(store, c) == [d \in DOMAIN store \cap {c} |-> store[d]]

\* The transactions the engine may be given for a client other than c, the ids
\* known to the client's account and one unknown id.
ClientTxs(store, d) ==
    LET known == Cardinality(DOMAIN get_account_mut(store, d)[d].transactions)
        ids == {t \in ShardTxIds : t <= known + 1}
    IN  {DepositTx(d, t, a) : t \in ids, a \in Amounts}
            \cup {WithdrawalTx(d, 1, a) : a \in Amounts}
            \cup {DisputeTx(d, t) : t \in ids}
            \cup {ResolveTx(d, t) : t \in ids}
            \cup {ChargebackTx(d, t) : t \in ids}

OtherClientTxs(store, c) == UNION {ClientTxs(store, d) : d \in ShardClients \ {c}}

\* C24: each handle call returns, and leaves in its client's account, what the
\* same call returns and leaves in an engine that holds that client's account
\* alone (so, by induction on the input, what a fresh engine fed only that
\* client's transactions has); it changes no other client's account; and it
\* commutes with every transaction of another client.
C24_ClientIndependence ==
    [][ Called =>
            LET tx == last'.tx
                c == tx.client_id
                alone == handle(Shard(data, c), tx)
            IN  /\ last'.res = alone.res
                /\ DOMAIN alone.state = {c}
                /\ data'[c] = alone.state[c]
                /\ DOMAIN data' = DOMAIN data \cup {c}
                /\ \A d \in DOMAIN data \ {c} : data'[d] = data[d]
                /\ \A other \in OtherClientTxs(data, c) :
                       /\ handle(handle(data, other).state, tx).state
                              = handle(data', other).state
                       /\ handle(handle(data, other).state, tx).res = last'.res
                       /\ handle(data, other).res = handle(data', other).res ]_vars

\* C24 witness: the first client holds funds, and a Chargeback for the second
\* client has locked the second account only.
C24_Witness ==
    /\ DOMAIN data = {1, 2}
    /\ data[1].total_funds > 0
    /\ ~data[1].locked
    /\ last.tx.client_id = 2
    /\ last.tx.kind = "Chargeback"
    /\ last.res = Ok
    /\ data[2].locked

\* C25: free_disputed_amount(amount) sets active_dispute_total to
\* max(active_dispute_total - amount, 0), returns true exactly when amount is
\* greater than the previous active_dispute_total, leaves total_funds, locked
\* and transactions as they are, and never raises available_funds() beyond
\* total_funds.
C25_FreeDisputedAmount ==
    [][ free_call'.called =>
            LET before == data[1]
                after == data'[1]
                amount == free_call'.amount
            IN  /\ after.active_dispute_total = max(before.active_dispute_total - amount, 0)
                /\ free_call'.flag = (amount > before.active_dispute_total)
                /\ after.total_funds = before.total_funds
                /\ after.locked = before.locked
                /\ after.transactions = before.transactions
                /\ after.client = before.client
                /\ available_funds(after) <= max(after.total_funds, 0)
                /\ available_funds(after) > available_funds(before)
                       => available_funds(after) <= after.total_funds ]_vars

\* C25 witness: a call that asked for more than was disputed: the flag is set,
\* nothing is disputed any more and all of the positive total is available.
C25_Witness ==
    /\ free_call.called
    /\ free_call.flag
    /\ free_call.amount > 0
    /\ data[1].active_dispute_total = 0
    /\ data[1].total_funds > 0
    /\ available_funds(data[1]) = data[1].total_funds

\* active_dispute_total exceeds total_funds.
OverDisputed(account) == account.active_dispute_total > account.total_funds

\* C26: in every state in which active_dispute_total exceeds total_funds,
\* available_funds() = 0 and held_funds() = max(total_funds, 0); on an unlocked
\* account in such a state every Withdrawal is refused with InsufficientFunds,
\* and an applied Deposit of amount d leaves available_funds() at
\* max(total_funds + d - active_dispute_total, 0).
C26_OverDisputed ==
    /\ [](\A c \in DOMAIN data :
              OverDisputed(data[c]) =>
                  /\ available_funds(data[c]) = 0
                  /\ held_funds(data[c]) = max(data[c].total_funds, 0))
    /\ [][ (/\ Called
            /\ last'.tx.kind \in {"Deposit", "Withdrawal"}
            /\ OverDisputed(PreAccount(last'.tx.client_id))
            /\ ~PreAccount(last'.tx.client_id).locked) =>
               LET before == PreAccount(last'.tx.client_id)
                   after == data'[last'.tx.client_id]
               IN  /\ last'.tx.kind = "Withdrawal" =>
                          (last'.res = InsufficientFunds /\ after = before)
                   /\ (last'.tx.kind = "Deposit" /\ last'.res = Ok) =>
                          available_funds(after)
                              = max(before.total_funds + last'.tx.amount
                                        - before.active_dispute_total, 0) ]_vars

\* C27: through handle the clamp of free_disputed_amount is never reached: the
\* amount of every Disputed record is at most active_dispute_total, and at every
\* applied Resolve or Chargeback free_disputed_amount returns false.
C27_ClampNeverFires ==
    /\ [](\A c \in DOMAIN data :
              \A t \in DisputedIds(data[c]) :
                  data[c].transactions[t].amount <= data[c].active_dispute_total)
    /\ [][ (Called /\ last'.tx.kind \in {"Resolve", "Chargeback"} /\ last'.res = Ok) =>
               LET account == PreAccount(last'.tx.client_id)
                   amount == account.transactions[last'.tx.transaction_id].amount
               IN  /\ amount <= account.active_dispute_total
                   /\ ~free_disputed_amount(account, amount).flag ]_vars

\* C27 witness: a Chargeback applied while another record of the account stays
\* Disputed.
C27_Witness ==
    /\ last.tx.kind = "Chargeback"
    /\ last.res = Ok
    /\ DisputedIds(data[last.tx.client_id]) # {}
    /\ data[last.tx.client_id].active_dispute_total > 0

\* C28: in every reachable state held_funds() >= 0 and available_funds() +
\* held_funds() = max(total_funds, 0); so for an unlocked account available +
\* held = total_funds, also when active_dispute_total exceeds total_funds, and
\* the sum differs from total_funds only for an overdrawn, locked account.
C28_AvailablePlusHeld ==
    \A c \in DOMAIN data :
        LET sum == available_funds(data[c]) + held_funds(data[c])
        IN  /\ held_funds(data[c]) >= 0
            /\ sum = max(data[c].total_funds, 0)
            /\ ~data[c].locked => sum = data[c].total_funds
            /\ sum # data[c].total_funds => (data[c].total_funds < 0 /\ data[c].locked)

\* C28 witness: an unlocked account whose disputed total exceeds its positive
\* total_funds, all of which is held.
C28_Witness ==
    \E c \in DOMAIN data :
        /\ ~data[c].locked
        /\ data[c].total_funds > 0
        /\ data[c].active_dispute_total > data[c].total_funds
        /\ held_funds(data[c]) = data[c].total_funds
        /\ available_funds(data[c]) = 0

\* What is missing from total_funds: the deposits recorded, less the refunded
\* ones, less total_funds.
Withdrawn(account) ==
    SumAmounts(account.transactions, DOMAIN account.transactions)
        - SumAmounts(account.transactions, RefundedIds(account))
        - account.total_funds

\* C29: total_funds is the sum of the amounts of the account's records, less
\* the amounts of its applied withdrawals, less the amounts of its Refunded
\* records.  Stated by steps: nothing is missing from a new account, an applied
\* Withdrawal adds its amount to what is missing, no other call changes what is
\* missing, and a refused call changes neither total_funds nor any record.
C29_Conservation ==
    /\ [](\A c \in DOMAIN data : Withdrawn(data[c]) >= 0)
    /\ [][ Called =>
               LET before == PreAccount(last'.tx.client_id)
                   after == data'[last'.tx.client_id]
               IN  /\ Withdrawn(before) = 0 \/ last'.tx.client_id \in DOMAIN data
                   /\ Withdrawn(after)
                          = Withdrawn(before)
                                + (IF last'.tx.kind = "Withdrawal" /\ last'.res = Ok
                                   THEN last'.tx.amount ELSE 0)
                   /\ last'.res # Ok =>
                          /\ after.total_funds = before.total_funds
                          /\ after.transactions = before.transactions ]_vars

\* C29 witness: an overdrawn account: a deposit was partly withdrawn and then
\* charged back, and a later withdrawal was refused.
C29_Witness ==
    /\ last.tx.kind = "Withdrawal"
    /\ last.res # Ok
    /\ RefundedIds(data[last.tx.client_id]) # {}
    /\ Withdrawn(data[last.tx.client_id]) > 0
    /\ data[last.tx.client_id].total_funds = - Withdrawn(data[last.tx.client_id])

\* C30: an account is locked if and only if exactly one of its records is
\* Refunded; no account has two Refunded records, and a Chargeback is applied
\* only to an account without one, so at most once per client.
C30_LockedIffRefunded ==
    /\ [](\A c \in DOMAIN data :
              /\ Cardinality(RefundedIds(data[c])) <= 1
              /\ data[c].locked <=> Cardinality(RefundedIds(data[c])) = 1)
    /\ [][ (Called /\ last'.tx.kind = "Chargeback" /\ last'.res = Ok) =>
               /\ RefundedIds(PreAccount(last'.tx.client_id)) = {}
               /\ RefundedIds(data'[last'.tx.client_id]) = {last'.tx.transaction_id} ]_vars

\* C30 witness: a second Chargeback, of a record that is Disputed, refused on
\* the account the first one locked.
C30_Witness ==
    /\ last.tx.kind = "Chargeback"
    /\ last.res = AccountLocked
    /\ last.tx.transaction_id \in DisputedIds(data[last.tx.client_id])
    /\ Cardinality(RefundedIds(data[last.tx.client_id])) = 1

====
